---- MODULE Spec2Model ----
(***************************************************************************)
(* Model of the loop/abuse prevention engine of the Gmail API gateway      *)
(* (LoopPreventionService) and of its consumer EmailProcessor.             *)
(*                                                                         *)
(* Text.  A JavaScript string is modelled as a sequence of tokens; a token *)
(* is a piece of text that no vocabulary phrase begins or ends inside, so  *)
(* that String.includes is containment of a contiguous run of tokens.      *)
(* Blanks are tokens of their own.                                         *)
(*                                                                         *)
(* Numbers.  A detector score x in [0,1] is the integer 300 * x and a      *)
(* combined confidence c is the integer 30000 * c; every constant of the   *)
(* service (0.4, 0.15, 1.2, 0.9, k/3 * 0.8, k/20 * 0.8 ...) is exact on    *)
(* these grids, so the arithmetic below is the rational arithmetic of the  *)
(* source.                                                                 *)
(*                                                                         *)
(* Time.  `now` is Date.now() in milliseconds.                             *)
(***************************************************************************)
EXTENDS Integers, Sequences, FiniteSets, TLC

VARIABLES
    emailHistory,    \* Map<string, Date[]>      sender -> send timestamps
    threadReplies,   \* Map<string, number>      thread id -> reply counter
    contentHashes,   \* Map<string, string[]>    sender -> body fingerprints
    blockedSenders,  \* Set<string>              the blacklist
    attemptCounts,   \* Map<string, number>      sender -> high-score checks
    now,             \* the clock read by new Date()
    pending,         \* checkForLoop calls suspended at `await Promise.all`
    last,            \* the most recently returned LoopCheckResult
    track,           \* per sender, a record of the checkForLoop calls it has made
    nCalls,          \* checkForLoop calls made so far
    nTicks,          \* clock advances so far
    ar,              \* EmailProcessor.autoRespond: its position and locals
    collaborators,   \* the calls the running autoRespond made to its collaborators
    status,          \* the latest getStatus snapshot and the operations around it
    batch,           \* EmailProcessor.processBatch: its position and its processEmail tasks
    support          \* FirstLevelSupportAgent.processBatch: its position, locals and calls

engineVars == <<emailHistory, threadReplies, contentHashes, blockedSenders, attemptCounts>>
callVars == <<pending, last, track, nCalls>>
arVars == <<ar, collaborators>>
vars == <<emailHistory, threadReplies, contentHashes, blockedSenders, attemptCounts,
          now, pending, last, track, nCalls, nTicks, ar, collaborators, status, batch,
          support>>

-----------------------------------------------------------------------------
(* Text *)

\* String.prototype.toLowerCase on one token.
LowerToken(t) ==
    CASE t = "Auto-Reply" -> "auto-reply"
      [] t = "Automatic"  -> "automatic"
      [] t = "Reply"      -> "reply"
      [] t = "Out"        -> "out"
      [] t = "Of"         -> "of"
      [] t = "Office"     -> "office"
      [] t = "Do"         -> "do"
      [] t = "Not"        -> "not"
      [] t = "This"       -> "this"
      [] t = "Re:"        -> "re:"
      [] t = "RE:"        -> "re:"
      [] t = "Message"    -> "message"
      [] t = "MESSAGE"    -> "message"
      [] t = "Email"      -> "email"
      [] t = "Question"   -> "question"
      [] t = "Hi"         -> "hi"
      [] t = "@Company.com" -> "@company.com"
      [] t = "NoReply@"   -> "noreply@"
      [] OTHER            -> t

toLowerCase(s) == [i \in 1..Len(s) |-> LowerToken(s[i])]

\* String.prototype.includes
includes(s, p) ==
    \E i \in 0..(Len(s) - Len(p)) : \A j \in 1..Len(p) : s[i + j] = p[j]

\* String.prototype.trim
RECURSIVE trimLeft(_)
trimLeft(s) == IF s # <<>> /\ Head(s) = " " THEN trimLeft(Tail(s)) ELSE s

RECURSIVE trimRight(_)
trimRight(s) ==
    IF s # <<>> /\ s[Len(s)] = " " THEN trimRight(SubSeq(s, 1, Len(s) - 1)) ELSE s

trim(s) == trimRight(trimLeft(s))

\* The characters of a token sequence, as one string.
RECURSIVE Chars(_)
Chars(s) == IF s = <<>> THEN "" ELSE Head(s) \o Chars(Tail(s))

Min(a, b) == IF a < b THEN a ELSE b
Max(a, b) == IF a > b THEN a ELSE b

\* A score n/d on the 1/300 grid, a confidence n/d on the 1/30000 grid.
Score(n, d) == (n * 300) \div d
Conf(n, d) == (n * 30000) \div d

-----------------------------------------------------------------------------
(* Configuration *)

patterns ==
    << <<"auto-reply">>,
       <<"automatic", " ", "reply">>,
       <<"out", " ", "of", " ", "office">>,
       <<"autoreply">>,
       <<"this", " ", "is", " ", "an", " ", "automated">>,
       <<"do", " ", "not", " ", "reply">>,
       <<"automated", " ", "response">> >>

maxEmailsPerHour == 10
maxRepliesPerThread == 20
burstThreshold == 5
maxReChains == 3
whitelistDomains == { <<"@company.com">> }
\* backoffDelays, in milliseconds; the tier 'block' is written -1
backoffDelays == <<0, 5 * 60 * 1000, 60 * 60 * 1000, -1>>

OneHourMs == 3600000
OneMinuteMs == 60000

-----------------------------------------------------------------------------
(* Maps.  A JavaScript Map is a function whose domain is its key set. *)

EmptyMap == [k \in {} |-> 0]
Has(m, k) == k \in DOMAIN m
Put(m, k, v) == [x \in DOMAIN m \cup {k} |-> IF x = k THEN v ELSE m[x]]
Delete(m, k) == [x \in DOMAIN m \ {k} |-> m[x]]
\* m.get(k) || dflt
GetOr(m, k, dflt) == IF Has(m, k) THEN m[k] ELSE dflt

\* Array.prototype.filter(...).length
CountSeq(s, Test(_)) == Cardinality({i \in 1..Len(s) : Test(s[i])})

-----------------------------------------------------------------------------
(* Signal extractors *)

\* checkPatterns: autoresponder phrases in subject and body, noreply senders
checkPatterns(email) ==
    LET content == toLowerCase(email.subject \o <<" ">> \o email.body)
        fromEmail == toLowerCase(email.from)
        matchCount == Cardinality({i \in 1..Len(patterns) : includes(content, patterns[i])})
        matched == IF matchCount = 0 THEN 0
                   ELSE Score(5, 10) + (matchCount - 1) * Score(3, 10)
        noreply == IF includes(fromEmail, <<"noreply@">>)
                      \/ includes(fromEmail, <<"do-not-reply@">>)
                   THEN Score(5, 10) ELSE 0
        subject == toLowerCase(email.subject)
        special == IF includes(subject, <<"auto-reply">>)
                      \/ includes(subject, <<"out", " ", "of", " ", "office">>)
                   THEN Score(3, 10) ELSE 0
    IN  Min(matched + noreply + special, Score(1, 1))

\* a frequency detector that counts a stale copy of the list: the sends
\* recorded since the copy was taken are lost
FrequencyHistoryStale(history, t) ==
    LET kept == SelectSeq(history, LAMBDA time : time > t - OneHourMs)
    IN  IF Len(kept) >= 4 THEN Append(SubSeq(kept, 1, Len(kept) - 1), t)
        ELSE Append(kept, t)

\* a frequency detector that never prunes
FrequencyHistoryUnpruned(history, t) == Append(history, t)

\* checkFrequency, lines 181-189: the sender's list after pruning to the last
\* hour and appending the current time.
FrequencyHistory(history, t) ==
    Append(SelectSeq(history, LAMBDA time : time > t - OneHourMs), t)

\* an hourly limit that is off by one
FrequencyScoreLateLimit(history, t) ==
    LET burst == CountSeq(history, LAMBDA time : time > t - OneMinuteMs)
    IN  IF Len(history) > maxEmailsPerHour + 1 THEN Score(95, 100)
        ELSE IF burst >= burstThreshold THEN Score(85, 100)
        ELSE Min(Score(Len(history), maxEmailsPerHour), Score(7, 10))

\* a burst test that needs more than burstThreshold sends
FrequencyScoreLateBurst(history, t) ==
    LET burst == CountSeq(history, LAMBDA time : time > t - OneMinuteMs)
    IN  IF Len(history) > maxEmailsPerHour THEN Score(95, 100)
        ELSE IF burst > burstThreshold THEN Score(85, 100)
        ELSE Min(Score(Len(history), maxEmailsPerHour), Score(7, 10))

\* checkFrequency, lines 191-204: the score of the pruned and extended list.
FrequencyScore(history, t) ==
    LET burst == CountSeq(history, LAMBDA time : time > t - OneMinuteMs)
    IN  IF Len(history) > maxEmailsPerHour THEN Score(95, 100)
        ELSE IF burst >= burstThreshold THEN Score(85, 100)
        ELSE Min(Score(Len(history), maxEmailsPerHour), Score(7, 10))

\* checkReplyChains: occurrences of /Re:/gi in the subject
checkReplyChains(subject) ==
    LET reCount == CountSeq(subject, LAMBDA tok : LowerToken(tok) = "re:")
    IN  IF reCount > maxReChains THEN Score(95, 100)
        ELSE IF reCount = maxReChains THEN Score(8, 10)
        ELSE Score(reCount * 8, maxReChains * 10)

\* createHash('sha256').update(x).digest('hex').substring(0, 16) of the bodies
\* the model sends, as <<first 4 hex digits, next 12 hex digits>>.
sha256Hex16 ==
    ("message 1" :> <<"b526", "aef1a341cfe6">>) @@
    ("message 2" :> <<"8476", "8ddee659efea">>) @@
    ("message 3" :> <<"fb29", "a8d5309d7c35">>) @@
    ("message 4" :> <<"1c5b", "a87422760b14">>) @@
    ("message 5" :> <<"ee2a", "8bc71ab62565">>) @@
    ("message 6" :> <<"5cb3", "f8d385243211">>) @@
    ("message 7" :> <<"5f34", "0db7683440ba">>) @@
    ("message 8" :> <<"6ab3", "576c0ba38ca4">>) @@
    ("message 9" :> <<"dc06", "0ec94baf91e3">>) @@
    ("message 10" :> <<"c032", "f77ad6ee0bdb">>) @@
    ("message 11" :> <<"95f3", "b9a33e22159f">>) @@
    ("message 12" :> <<"a939", "255495bb9004">>) @@
    ("message 13" :> <<"670e", "6ce2b876e72e">>) @@
    ("message 14" :> <<"f10a", "e5af70813be0">>) @@
    ("message 15" :> <<"55a4", "56b018fadfa4">>) @@
    ("message 16" :> <<"1206", "474bc25abdb3">>) @@
    ("message 17" :> <<"2889", "f771b2202ad4">>) @@
    ("message 18" :> <<"77e6", "0952eb429aca">>) @@
    ("message 19" :> <<"304c", "fe7e6084bb23">>) @@
    ("message 20" :> <<"cbf6", "0d481316d37e">>) @@
    ("message 72" :> <<"f1f0", "f0060b0d3fd9">>) @@
    ("message 169" :> <<"f1f0", "4825dfa22282">>) @@
    ("this is an automated response" :> <<"db67", "ebf0ddc450e1">>) @@
    ("do not reply" :> <<"3e12", "f6a139ac17ba">>) @@
    ("thanks" :> <<"a6a2", "729cbf6bcadc">>)

hashContent(content) == sha256Hex16[Chars(trim(toLowerCase(content)))]

\* an exact duplicate scored like a prefix match
SimilarityScoreFuzzy(senderHashes, contentHash) ==
    IF \E i \in 1..Len(senderHashes) : senderHashes[i][1] = contentHash[1]
    THEN Score(7, 10)
    ELSE Score(1, 10)

\* checkContentSimilarity, lines 225-251: the score.
SimilarityScore(senderHashes, contentHash) ==
    IF \E i \in 1..Len(senderHashes) : senderHashes[i] = contentHash
    THEN Score(98, 100)
    ELSE IF \E i \in 1..Len(senderHashes) : senderHashes[i][1] = contentHash[1]
         THEN Score(7, 10)
         ELSE Score(1, 10)

\* a fingerprint list that never evicts
SimilarityHashesUnbounded(senderHashes, contentHash) ==
    IF \E i \in 1..Len(senderHashes) : senderHashes[i] = contentHash
    THEN senderHashes
    ELSE Append(senderHashes, contentHash)

\* checkContentSimilarity: the sender's list afterwards.  An exact duplicate
\* returns at line 230, before the list is written.
SimilarityHashes(senderHashes, contentHash) ==
    IF \E i \in 1..Len(senderHashes) : senderHashes[i] = contentHash
    THEN senderHashes
    ELSE LET pushed == Append(senderHashes, contentHash)
         IN  IF Len(pushed) > 10 THEN Tail(pushed) ELSE pushed

\* a header value is truthy when it is present and not the empty string
Truthy(headers, name) == Has(headers, name) /\ headers[name] # ""

autoHeaders == {"x-autoresponder", "x-autoreply", "auto-submitted", "x-auto-response"}

checkHeaders(headers) ==
    LET auto == Cardinality({h \in autoHeaders : Truthy(headers, h)}) * Score(5, 10)
        precedence == IF Has(headers, "precedence")
                         /\ headers["precedence"] \in {"bulk", "auto_reply"}
                      THEN Score(6, 10) ELSE 0
        list == IF Truthy(headers, "list-unsubscribe") \/ Truthy(headers, "list-id")
                THEN Score(3, 10) ELSE 0
    IN  Min(auto + precedence + list, Score(1, 1))

\* checkThreadReplies, lines 293-304: the score of the incremented counter.
ThreadScore(count) ==
    IF count > maxRepliesPerThread THEN Score(95, 100)
    ELSE IF count * 10 >= maxRepliesPerThread * 8 THEN Score(8, 10)
    ELSE Score(count * 8, maxRepliesPerThread * 10)

\* a thread detector that also counts the messages without a thread id
ThreadRepliesAnonymous(replies, threadId) ==
    Put(replies, threadId, GetOr(replies, threadId, 0) + 1)

\* checkThreadReplies, lines 291-294: the counters afterwards
ThreadReplies(replies, threadId) ==
    IF threadId = "" THEN replies
    ELSE Put(replies, threadId, GetOr(replies, threadId, 0) + 1)

isWhitelisted(sender) ==
    \E domain \in whitelistDomains : includes(toLowerCase(sender), toLowerCase(domain))

-----------------------------------------------------------------------------
(* Decision engine *)

\* weights of pattern, frequency, reply, similarity, headers, thread, in 1/100
weights == <<40, 20, 10, 15, 15, 5>>

RECURSIVE MaxOf(_)
MaxOf(s) == IF Len(s) = 1 THEN s[1] ELSE Max(Head(s), MaxOf(Tail(s)))

RECURSIVE Dot(_, _)
Dot(s, w) == IF s = <<>> \/ w = <<>> THEN 0 ELSE Head(s) * Head(w) + Dot(Tail(s), Tail(w))

\* checkForLoop, lines 75-102: the combined confidence of the six scores.
CombinedScore(scores) ==
    LET maxScore == MaxOf(scores) IN
    IF maxScore > Score(7, 10)
    THEN (maxScore * 100 * 9) \div 10
    ELSE LET weightedSum == Dot(scores, weights)
             activeSignals == CountSeq(scores, LAMBDA s : s > Score(1, 10))
             boosted == IF activeSignals >= 3 THEN (weightedSum * 12) \div 10
                        ELSE weightedSum
             floored == IF scores[5] > Score(2, 10) THEN Max(boosted, Conf(25, 100))
                        ELSE boosted
         IN  Min(floored, Conf(95, 100))

\* getBackoffDelay: the tier of a sender with `attempts` timestamps on file
getBackoffDelay(history) ==
    LET attempts == Len(history)
        attemptIndex == Min(attempts \div 3, Len(backoffDelays) - 1)
    IN  backoffDelays[attemptIndex + 1]

\* an attempt counter that only counts scores above the block threshold
RecordedAttemptsLate(counts, sender, score) ==
    IF score > Conf(8, 10) THEN Put(counts, sender, GetOr(counts, sender, 0) + 1)
    ELSE counts

\* recordEmailCheck: the attempt counter
RecordedAttempts(counts, sender, score) ==
    IF score > Conf(7, 10) THEN Put(counts, sender, GetOr(counts, sender, 0) + 1)
    ELSE counts

\* a slow-burn rule that never fires
RecordedBlacklistNever(blocked, counts, sender, score) == blocked

\* recordEmailCheck: the blacklist
RecordedBlacklist(blocked, counts, sender, score) ==
    IF score > Conf(7, 10) /\ GetOr(counts, sender, 0) >= 10 THEN blocked \cup {sender}
    ELSE blocked

-----------------------------------------------------------------------------
(* checkForLoop *)

\* no result yet
NoResult == [isLoop |-> FALSE, confidence |-> 0, action |-> "none"]

\* the result of the whitelist short-circuit, line 49
WhitelistResult == [isLoop |-> FALSE, confidence |-> 0, action |-> "proceed"]

\* the result of the blacklist short-circuit, lines 54-59
BlockedResult ==
    [isLoop |-> TRUE, confidence |-> Conf(1, 1), action |-> "block",
     reason |-> "Sender previously blocked for email loops"]

\* a delay reported as a loop
DecisionDelayIsLoop(avgScore, delay) ==
    IF avgScore > Conf(8, 10) \/ (avgScore > Conf(5, 10) /\ delay = -1)
    THEN [isLoop |-> TRUE, confidence |-> avgScore, action |-> "block",
          reason |-> "High probability of email loop detected"]
    ELSE IF avgScore > Conf(5, 10)
    THEN [isLoop |-> TRUE, confidence |-> avgScore, action |-> "delay",
          delayMinutes |-> delay \div 60000,
          reason |-> "Possible loop detected, applying delay"]
    ELSE [isLoop |-> FALSE, confidence |-> avgScore, action |-> "proceed"]

\* lines 107-142: the result of a combined score, given the sender's backoff tier
Decision(avgScore, delay) ==
    IF avgScore > Conf(8, 10)
    THEN [isLoop |-> TRUE, confidence |-> avgScore, action |-> "block",
          reason |-> "High probability of email loop detected"]
    ELSE IF avgScore > Conf(5, 10)
    THEN IF delay = -1
         THEN [isLoop |-> TRUE, confidence |-> avgScore, action |-> "block",
               reason |-> "Too many loop attempts"]
         ELSE [isLoop |-> FALSE, confidence |-> avgScore, action |-> "delay",
               delayMinutes |-> delay \div 60000,
               reason |-> "Possible loop detected, applying delay"]
    ELSE [isLoop |-> FALSE, confidence |-> avgScore, action |-> "proceed"]

\* a blacklist entry made for every call that is not let through
BlacklistedOnDelay(blocked, sender, result) ==
    IF result.action \in {"block", "delay"} THEN blocked \cup {sender} ELSE blocked

\* a block that forgets addToBlacklist
BlacklistedNever(blocked, sender, result) == blocked

\* lines 109 and 121: addToBlacklist runs on exactly the two 'block' returns
Blacklisted(blocked, sender, result) ==
    IF result.action = "block" THEN blocked \cup {sender} ELSE blocked

\* The record kept of a sender's calls.  It is no state of the service: it is
\* what an observer of the calls knows, and the claims are stated with it.
\*   times   the times of the sender's calls of the last hour, short-circuited
\*           calls included, since the sender's history was last cleared
\*   ever    the number of its calls since then
\*   streak  the consecutive autoresponder-pattern messages it has sent, none
\*           of which scored above 0.8 in the decision engine
\*   hot     the consecutive autoresponder-pattern messages it has sent, each
\*           of which scored in (0.7, 0.8] or was answered from the blacklist
\*   body    the body of its latest message
\*   act     the action most recently returned to it, "none" while its latest
\*           call is suspended
\*   tier    the backoff tier of its latest call that the decision engine
\*           scored in (0.5, 0.8], -1 when there was none
NoTrack == [times |-> <<>>, ever |-> 0, streak |-> 0, hot |-> 0, body |-> <<>>, act |-> "none",
            tier |-> -1]
TrackOf(sender) == GetOr(track, sender, NoTrack)

WithinLast(times, t, span) == SelectSeq(times, LAMBDA x : t - x < span)

\* the position of a call among its sender's calls
Ordinal(sender) ==
    LET times == Append(WithinLast(TrackOf(sender).times, now, OneHourMs), now)
    IN  [times |-> times,
         nth |-> Len(times),
         burst |-> Len(WithinLast(times, now, OneMinuteMs)),
         ever |-> TrackOf(sender).ever + 1]

\* lines 118-136: the decision engine scored the call in the backoff band
Backoff(path, result) ==
    /\ path = "engine"
    /\ result.confidence > Conf(5, 10)
    /\ result.confidence <= Conf(8, 10)

\* the backoff tier a result of the backoff band shows
TierOf(result) ==
    IF result.action = "block" THEN 3
    ELSE CASE result.delayMinutes = 0 -> 0
           [] result.delayMinutes = 5 -> 1
           [] result.delayMinutes = 60 -> 2

\* the streaks of a sender after a call of it returned `result` on `path`
Streaks(t, isPattern, path, result) ==
    LET low == path = "blacklist" \/ result.confidence <= Conf(8, 10)
        high == path = "blacklist" \/ result.confidence > Conf(7, 10)
    IN  [t EXCEPT !.streak = IF isPattern /\ low THEN @ + 1 ELSE 0,
                  !.hot = IF isPattern /\ low /\ high THEN @ + 1 ELSE 0,
                  !.act = result.action,
                  !.tier = IF Backoff(path, result) THEN TierOf(result) ELSE @]

\* what a returning call leaves in `last`
Returned(call, path, scores, result) ==
    [n |-> last.n + 1, from |-> call.from, path |-> path, scores |-> scores,
     result |-> result, nth |-> call.nth, burst |-> call.burst, ever |-> call.ever,
     dup |-> call.dup]

\* the message repeats, byte for byte, the body of the sender's previous
\* message, whose check has returned and did not block
Repeats(email) ==
    /\ TrackOf(email.from).body = email.body
    /\ TrackOf(email.from).act \in {"proceed", "delay"}
    /\ \A i \in 1..Len(pending) : pending[i].call.from # email.from

\* a call as it is made: who calls, and its position among the sender's calls
CallOf(email) ==
    [from |-> email.from, pattern |-> checkPatterns(email) > 0,
     nth |-> Ordinal(email.from).nth, burst |-> Ordinal(email.from).burst,
     ever |-> Ordinal(email.from).ever, dup |-> Repeats(email),
     threadId |-> email.threadId]

\* the observer's record when `email` is offered and, if the call returns at
\* once, what it returned
Called(email, path, result) ==
    /\ nCalls' = nCalls + 1
    /\ LET t == [TrackOf(email.from) EXCEPT !.times = Ordinal(email.from).times,
                                            !.ever = Ordinal(email.from).ever,
                                            !.body = email.body,
                                            !.act = "none"]
       IN  track' = Put(track, email.from,
                        IF path = "engine" THEN t
                        ELSE Streaks(t, checkPatterns(email) > 0, path, result))

\* a whitelist that only skips the stateful detectors and still scores the text
CheckWhitelistedScored(email) ==
    /\ isWhitelisted(email.from)
    /\ last' = Returned(CallOf(email), "whitelist", <<>>,
                        Decision(checkPatterns(email) * 100, 0))
    /\ Called(email, "whitelist", WhitelistResult)
    /\ UNCHANGED <<engineVars, pending>>

\* a whitelist test made only after the frequency detector has recorded the send
CheckWhitelistedCounted(email) ==
    /\ isWhitelisted(email.from)
    /\ last' = Returned(CallOf(email), "whitelist", <<>>, WhitelistResult)
    /\ Called(email, "whitelist", WhitelistResult)
    /\ emailHistory' = Put(emailHistory, email.from,
                           FrequencyHistory(GetOr(emailHistory, email.from, <<>>), now))
    /\ UNCHANGED <<threadReplies, contentHashes, blockedSenders, attemptCounts, pending>>

\* lines 47-50
CheckWhitelisted(email) ==
    /\ isWhitelisted(email.from)
    /\ last' = Returned(CallOf(email), "whitelist", <<>>, WhitelistResult)
    /\ Called(email, "whitelist", WhitelistResult)
    /\ UNCHANGED <<engineVars, pending>>

\* a blacklist test made only after the frequency detector has recorded the send
CheckBlockedCounted(email) ==
    /\ ~isWhitelisted(email.from)
    /\ email.from \in blockedSenders
    /\ last' = Returned(CallOf(email), "blacklist", <<>>, BlockedResult)
    /\ Called(email, "blacklist", BlockedResult)
    /\ emailHistory' = Put(emailHistory, email.from,
                           FrequencyHistory(GetOr(emailHistory, email.from, <<>>), now))
    /\ UNCHANGED <<threadReplies, contentHashes, blockedSenders, attemptCounts, pending>>

\* lines 52-60
CheckBlocked(email) ==
    /\ ~isWhitelisted(email.from)
    /\ email.from \in blockedSenders
    /\ last' = Returned(CallOf(email), "blacklist", <<>>, BlockedResult)
    /\ Called(email, "blacklist", BlockedResult)
    /\ UNCHANGED <<engineVars, pending>>

\* lines 62-72: the six extractors run and the call suspends at the await
RunChecks(email) ==
    /\ ~isWhitelisted(email.from)
    /\ email.from \notin blockedSenders
    /\ LET sender == email.from
           history == FrequencyHistory(GetOr(emailHistory, sender, <<>>), now)
           contentHash == hashContent(email.body)
           senderHashes == GetOr(contentHashes, sender, <<>>)
           count == GetOr(threadReplies, email.threadId, 0) + 1
           scores == << checkPatterns(email),
                        FrequencyScore(history, now),
                        checkReplyChains(email.subject),
                        SimilarityScore(senderHashes, contentHash),
                        checkHeaders(email.headers),
                        IF email.threadId = "" THEN 0 ELSE ThreadScore(count) >>
       IN  /\ emailHistory' = Put(emailHistory, sender, history)
           /\ contentHashes' =
                  IF SimilarityHashes(senderHashes, contentHash) = senderHashes
                  THEN contentHashes
                  ELSE Put(contentHashes, sender,
                           SimilarityHashes(senderHashes, contentHash))
           /\ threadReplies' = ThreadReplies(threadReplies, email.threadId)
           /\ pending' = Append(pending, [call |-> CallOf(email), scores |-> scores,
                                          count |-> Len(history)])
    /\ Called(email, "engine", NoResult)
    /\ UNCHANGED <<blockedSenders, attemptCounts, last>>

\* checkForLoop, from the call to its first return or await
CheckForLoop(email) ==
    \/ CheckWhitelisted(email)
    \/ CheckBlocked(email)
    \/ RunChecks(email)

\* lines 75-143: the continuation of the oldest suspended call
Decide ==
    /\ pending # <<>>
    /\ LET call == Head(pending).call
           scores == Head(pending).scores
           sender == call.from
           avgScore == CombinedScore(scores)
           counts == RecordedAttempts(attemptCounts, sender, avgScore)
           recorded == RecordedBlacklist(blockedSenders, counts, sender, avgScore)
           delay == getBackoffDelay(GetOr(emailHistory, sender, <<>>))
           result == Decision(avgScore, delay)
       IN  /\ attemptCounts' = counts
           /\ blockedSenders' = Blacklisted(recorded, sender, result)
           /\ last' = Returned(call, "engine", scores, result)
           /\ track' = Put(track, sender,
                           Streaks(TrackOf(sender), call.pattern, "engine", result))
    /\ pending' = Tail(pending)
    /\ UNCHANGED <<emailHistory, threadReplies, contentHashes, nCalls>>

\* a reset that leaves the sender in the blacklist
clearSenderHistoryKeepsFlag(sender) ==
    /\ emailHistory' = Delete(emailHistory, sender)
    /\ contentHashes' = Delete(contentHashes, sender)
    /\ UNCHANGED <<threadReplies, attemptCounts, blockedSenders>>

clearSenderHistory(sender) ==
    /\ emailHistory' = Delete(emailHistory, sender)
    /\ contentHashes' = Delete(contentHashes, sender)
    /\ blockedSenders' = blockedSenders \ {sender}
    /\ UNCHANGED <<threadReplies, attemptCounts>>

\* the observer's record of a sender starts afresh when its history is cleared
Forgotten(sender) == track' = Delete(track, sender)

\* Array.from(set).  A JavaScript Set lists its members in insertion order,
\* which the set of the model does not record; the array is given in a fixed
\* order of its members.
RECURSIVE ArrayFrom(_)
ArrayFrom(set) ==
    IF set = {} THEN <<>>
    ELSE LET x == CHOOSE y \in set : TRUE IN <<x>> \o ArrayFrom(set \ {x})

\* getStatus, lines 375-382: the snapshot of the current state
getStatus ==
    [totalSenders |-> Cardinality(DOMAIN emailHistory),
     blockedSenders |-> Cardinality(blockedSenders),
     activeThreads |-> Cardinality(DOMAIN threadReplies),
     blockedList |-> ArrayFrom(blockedSenders)]

\* no operation, and no snapshot taken yet
NoOp == [name |-> "none", sender |-> <<>>]
NoStatus ==
    [n |-> 0, k |-> 0, op |-> NoOp, before |-> NoOp,
     snapshot |-> [totalSenders |-> 0, blockedSenders |-> 0, activeThreads |-> 0,
                   blockedList |-> <<>>]]

-----------------------------------------------------------------------------
(* Inputs *)

NoHeaders == [h \in {} |-> ""]

ceo == <<"ceo", "@company.com">>
customer == <<"customer", "@example.com">>
noreply == <<"NoReply@", "system.com">>

\* the messages offered to checkForLoop
Emails ==
    { \* a trusted sender whose message looks like a certain loop
      [from |-> ceo, subject |-> <<"Auto-Reply", ":", " ", "Out", " ", "of", " ", "Office">>,
       body |-> <<"This", " ", "is", " ", "an", " ", "automated", " ", "response">>,
       threadId |-> "t1", headers |-> [h \in {"x-autoresponder"} |-> "true"]],
      \* ordinary mail
      [from |-> customer, subject |-> <<"Question">>,
       body |-> <<"Message", " ", "1">>, threadId |-> "", headers |-> NoHeaders],
      \* the same body again, up to case and surrounding blanks, in a thread
      [from |-> customer, subject |-> <<"Re:", " ", "Question">>,
       body |-> <<" ", "MESSAGE", " ", "1", " ">>, threadId |-> "t1", headers |-> NoHeaders],
      \* an autoresponder message
      [from |-> customer, subject |-> <<"Auto-Reply", ":", " ", "Message">>,
       body |-> <<"This", " ", "is", " ", "an", " ", "automated", " ", "response">>,
       threadId |-> "", headers |-> NoHeaders],
      \* an out-of-office notice
      [from |-> customer, subject |-> <<"Out", " ", "of", " ", "Office">>,
       body |-> <<"thanks">>, threadId |-> "", headers |-> NoHeaders],
      \* list mail from a no-reply address
      [from |-> noreply, subject |-> <<"Email">>,
       body |-> <<"Message", " ", "72">>, threadId |-> "t2",
       headers |-> [h \in {"list-id"} |-> "news"]] }

Senders == {e.from : e \in Emails}

\* new Date() advances by a minute or an hour between calls
TickSteps == {OneMinuteMs, OneHourMs}

MaxCalls == 3
MaxInFlight == 2
MaxTicks == 1

-----------------------------------------------------------------------------
(* The service used directly *)

\* no autoRespond call is running
Idle == [pc |-> "idle", emails |-> <<>>, i |-> 0, responded |-> 0,
         loopCheck |-> NoResult, template |-> "", runs |-> 0]

\* no processBatch call is running
NoBatch == [pc |-> "idle", ids |-> <<>>, options |-> [analyzeContent |-> TRUE, addLabels |-> FALSE],
            tasks |-> <<>>, results |-> <<>>, runs |-> 0]

\* no FirstLevelSupportAgent.processBatch call is running
NoSupport == [pc |-> "idle", emails |-> <<>>, i |-> 0, responses |-> <<>>, calls |-> <<>>,
              runs |-> 0]

Init ==
    /\ emailHistory = EmptyMap
    /\ threadReplies = EmptyMap
    /\ contentHashes = EmptyMap
    /\ blockedSenders = {}
    /\ attemptCounts = EmptyMap
    /\ now = 0
    /\ pending = <<>>
    /\ last = [n |-> 0, from |-> <<>>, path |-> "none", scores |-> <<>>,
               result |-> NoResult, nth |-> 0, burst |-> 0, ever |-> 0, dup |-> FALSE]
    /\ track = EmptyMap
    /\ nCalls = 0
    /\ nTicks = 0
    /\ ar = Idle
    /\ collaborators = <<>>
    /\ status = NoStatus
    /\ batch = NoBatch
    /\ support = NoSupport

\* a caller invokes checkForLoop
Check(email) ==
    /\ nCalls < MaxCalls
    /\ Len(pending) < MaxInFlight
    /\ CheckForLoop(email)
    /\ UNCHANGED <<now, nTicks, arVars, support, status, batch>>

\* the suspended call at the head of the microtask queue resumes
Resume ==
    /\ Decide
    /\ UNCHANGED <<now, nTicks, arVars, support, status, batch>>

\* an administrator resets a sender
Clear(sender) ==
    /\ clearSenderHistory(sender)
    /\ Forgotten(sender)
    /\ UNCHANGED <<now, nTicks, pending, last, nCalls, arVars, support, status, batch>>

\* time passes; a suspended continuation is a microtask and runs before it does
Advance(d, maxTicks) ==
    /\ pending = <<>>
    /\ nTicks < maxTicks
    /\ now' = now + d
    /\ nTicks' = nTicks + 1
    /\ UNCHANGED <<engineVars, callVars, arVars, support, status, batch>>

Tick(d) == Advance(d, MaxTicks)

Next ==
    \/ \E email \in Emails : Check(email)
    \/ Resume
    \/ \E sender \in Senders : Clear(sender)
    \/ \E d \in TickSteps : Tick(d)

Spec == Init /\ [][Next]_vars

-----------------------------------------------------------------------------
(* The service with its management operations: checks, resets and status
   snapshots in any order *)

\* an address that holds the trusted domain's text without being of that domain
evil == <<"user", "@company.com", ".evil.org">>

\* the addresses whose domain is a configured trusted domain
Trusted == {ceo}

GateEmails ==
    { [from |-> ceo, subject |-> <<"Auto-Reply", ":", " ", "Out", " ", "of", " ", "Office">>,
       body |-> <<"This", " ", "is", " ", "an", " ", "automated", " ", "response">>,
       threadId |-> "t1", headers |-> [h \in {"x-autoresponder"} |-> "true"]],
      [from |-> evil, subject |-> <<"Auto-Reply", ":", " ", "Out", " ", "of", " ", "Office">>,
       body |-> <<"This", " ", "is", " ", "an", " ", "automated", " ", "response">>,
       threadId |-> "t1", headers |-> [h \in {"x-autoresponder"} |-> "true"]],
      [from |-> customer, subject |-> <<"Auto-Reply", ":", " ", "Message">>,
       body |-> <<"This", " ", "is", " ", "an", " ", "automated", " ", "response">>,
       threadId |-> "", headers |-> NoHeaders],
      [from |-> customer, subject |-> <<"Re:", " ", "Question">>,
       body |-> <<"Message", " ", "1">>, threadId |-> "t1", headers |-> NoHeaders],
      [from |-> noreply, subject |-> <<"Email">>,
       body |-> <<"Message", " ", "72">>, threadId |-> "t2",
       headers |-> [h \in {"list-id"} |-> "news"]] }

GateSenders == {e.from : e \in GateEmails}

MaxGateOps == 5

\* the operation just performed on the service
Did(name, sender) ==
    status' = [status EXCEPT !.k = @ + 1, !.op = [name |-> name, sender |-> sender]]

GateCheck(email) ==
    /\ status.k < MaxGateOps
    /\ Len(pending) < MaxInFlight
    /\ CheckForLoop(email)
    /\ Did("checkForLoop", email.from)
    /\ UNCHANGED <<now, nTicks, arVars, support, batch>>

GateResume ==
    /\ Decide
    /\ Did("resume", Head(pending).call.from)
    /\ UNCHANGED <<now, nTicks, arVars, support, batch>>

GateClear(sender) ==
    /\ status.k < MaxGateOps
    /\ clearSenderHistory(sender)
    /\ Forgotten(sender)
    /\ Did("clearSenderHistory", sender)
    /\ UNCHANGED <<now, nTicks, pending, last, nCalls, arVars, support, batch>>

\* a status call that also drops the thread counters
GetStatusDrains ==
    /\ status.k < MaxGateOps
    /\ status' = [n |-> status.n + 1, k |-> status.k + 1,
                  op |-> [name |-> "getStatus", sender |-> <<>>],
                  before |-> status.op, snapshot |-> getStatus]
    /\ threadReplies' = EmptyMap
    /\ UNCHANGED <<emailHistory, contentHashes, blockedSenders, attemptCounts,
                   callVars, now, nTicks, arVars, support, batch>>

\* lines 375-382: a caller takes a snapshot
GetStatus ==
    /\ status.k < MaxGateOps
    /\ status' = [n |-> status.n + 1, k |-> status.k + 1,
                  op |-> [name |-> "getStatus", sender |-> <<>>],
                  before |-> status.op, snapshot |-> getStatus]
    /\ UNCHANGED <<engineVars, callVars, now, nTicks, arVars, support, batch>>

NextGate ==
    \/ \E email \in GateEmails : GateCheck(email)
    \/ GateResume
    \/ \E sender \in GateSenders : GateClear(sender)
    \/ GetStatus

SpecGate == Init /\ [][NextGate]_vars

-----------------------------------------------------------------------------
(* One sender sending a run of messages, each with a body of its own, as the
   unit tests of the service do *)

RunSender == <<"sender", "@example.com">>

Plain == <<"Email">>                                   \* no autoresponder phrase
Weak == <<"Automatic", " ", "Reply">>                  \* one phrase
Medium == <<"Out", " ", "of", " ", "Office">>          \* one phrase, in the subject
Loud == <<"Auto-Reply", ":", " ", "Out", " ", "of", " ", "Office">>   \* two

RunEmail(subject) ==
    [from |-> RunSender, subject |-> subject,
     body |-> <<"Message", " ", ToString(nCalls + 1)>>,
     threadId |-> "", headers |-> NoHeaders]

\* the sender's next message is checked, while fewer than maxInFlight checks
\* of its earlier messages are still suspended
Send(subject, maxCalls, maxInFlight) ==
    /\ nCalls < maxCalls
    /\ Len(pending) < maxInFlight
    /\ CheckForLoop(RunEmail(subject))
    /\ UNCHANGED <<now, nTicks, arVars, support, status, batch>>

\* autoresponder notices, hours apart
SlowSubjects == {Weak, Medium}
MaxSlowCalls == 16
MaxSlowTicks == 3

\* consecutive messages: each is checked after the check of the previous one returned
SendNotice(subject) == Send(subject, MaxSlowCalls, 1)
WaitAnHour == Advance(OneHourMs, MaxSlowTicks)

NextSlow ==
    \/ \E subject \in SlowSubjects : SendNotice(subject)
    \/ Resume
    \/ WaitAnHour

SpecSlow == Init /\ [][NextSlow]_vars

\* ordinary mail at a high rate
RateSubjects == {Plain, Loud}
MaxRateCalls == 12
MaxRateTicks == 2

SendMail(subject) == Send(subject, MaxRateCalls, 1)
Wait(d) == Advance(d, MaxRateTicks)

NextRate ==
    \/ \E subject \in RateSubjects : SendMail(subject)
    \/ Resume
    \/ \E d \in TickSteps : Wait(d)

SpecRate == Init /\ [][NextRate]_vars

\* the same mail offered while earlier checks of the sender are still suspended
MaxBurstCalls == 6

Offer(subject) == Send(subject, MaxBurstCalls, MaxInFlight)

NextBurst ==
    \/ \E subject \in RateSubjects : Offer(subject)
    \/ Resume
    \/ \E d \in TickSteps : Tick(d)

SpecBurst == Init /\ [][NextBurst]_vars

-----------------------------------------------------------------------------
(* EmailProcessor.autoRespond.  A batch of at most ten messages is worked
   through within one step of the model's clock. *)

\* the messages gmailService.listEmails may return
Inbox ==
    { [id |-> "m1", threadId |-> "t1", from |-> customer,
       subject |-> <<"Question">>, body |-> <<"Message", " ", "1">>],
      [id |-> "m2", threadId |-> "t1", from |-> customer,
       subject |-> <<"Auto-Reply", ":", " ", "Message">>,
       body |-> <<"This", " ", "is", " ", "an", " ", "automated", " ", "response">>],
      [id |-> "m3", threadId |-> "t2", from |-> customer,
       subject |-> <<"Out", " ", "of", " ", "Office">>, body |-> <<"thanks">>],
      [id |-> "m4", threadId |-> "t2", from |-> ceo,
       subject |-> <<"Question">>, body |-> <<"Message", " ", "2">>] }

MaxBatch == 2
MaxRuns == 2

\* the lists of distinct messages of at most MaxBatch entries
Batches ==
    UNION { {b \in [1..n -> Inbox] : \A i, j \in 1..n : i # j => b[i] # b[j]} : n \in 0..MaxBatch }

\* what aiService.analyzeEmail may answer
Analyses ==
    { [category |-> "newsletter", urgency |-> "high", intent |-> "information-request",
       suggestedReply |-> "Thank you for your message"],
      [category |-> "customer-support", urgency |-> "high", intent |-> "complaint",
       suggestedReply |-> "Thank you for your message"],
      [category |-> "customer-support", urgency |-> "high", intent |-> "complaint",
       suggestedReply |-> ""],
      [category |-> "customer-support", urgency |-> "low", intent |-> "information-request",
       suggestedReply |-> ""],
      [category |-> "sales-inquiry", urgency |-> "low", intent |-> "information-request",
       suggestedReply |-> ""],
      [category |-> "sales-inquiry", urgency |-> "low", intent |-> "complaint",
       suggestedReply |-> "Thank you for your message"],
      [category |-> "general", urgency |-> "high", intent |-> "information-request",
       suggestedReply |-> ""] }

\* a filter that only knows the categories never answered
shouldAutoRespondByDefault(analysis) ==
    analysis.category \notin {"newsletter", "spam", "internal-communication"}

\* lines 209-227
shouldAutoRespond(analysis) ==
    IF analysis.category \in {"newsletter", "spam", "internal-communication"} THEN FALSE
    ELSE IF analysis.category = "customer-support" /\ analysis.urgency = "high" THEN TRUE
    ELSE IF analysis.category = "sales-inquiry" /\ analysis.intent = "information-request"
         THEN TRUE
    ELSE FALSE

\* lines 118-123: what autoRespond hands to checkForLoop; no headers are passed
LoopInput(email) ==
    [from |-> email.from, subject |-> email.subject, body |-> email.body,
     threadId |-> email.threadId, headers |-> NoHeaders]

\* a processor that treats a delay as a go-ahead
AfterCheckDelayProceeds(action) ==
    IF action = "block" THEN "labelBlocked" ELSE "analyze"

\* lines 125-137: where autoRespond goes on a loop check's action
AfterCheck(action) ==
    IF action = "block" THEN "labelBlocked"
    ELSE IF action = "delay" THEN "continue"
    ELSE "analyze"

CurrentEmail == ar.emails[ar.i]

\* `continue`, or the end of the loop body: the next message
NextEmail(a) == [a EXCEPT !.pc = "loop", !.i = @ + 1, !.loopCheck = NoResult]

\* a loop without its try/catch: a failure ends the run
CatchAborts(a) == [a EXCEPT !.pc = "loop", !.i = Len(a.emails) + 1, !.loopCheck = NoResult]

\* lines 154-156: the catch block logs the failure and the loop goes on
\* with the next message
Catch(a) == NextEmail(a)

\* a call to a collaborator (the loop engine, the mail service, the AI
\* service) with its outcome: `ok` is FALSE when it threw
Logged(call) == collaborators' = Append(collaborators, call)

\* lines 112-113: the call, with the list listEmails returned
AutoRespond(emails, template) ==
    /\ ar.pc = "idle"
    /\ ar.runs < MaxRuns
    /\ ar' = [pc |-> "loop", emails |-> emails, i |-> 1, responded |-> 0,
              loopCheck |-> NoResult, template |-> template, runs |-> ar.runs + 1]
    /\ collaborators' = <<>>
    /\ UNCHANGED <<engineVars, callVars, now, nTicks, status, batch, support>>

\* lines 115-123: the loop check of the next message is called
ArCheck ==
    /\ ar.pc = "loop"
    /\ ar.i <= Len(ar.emails)
    /\ CheckForLoop(LoopInput(CurrentEmail))
    /\ ar' = [ar EXCEPT !.pc = "awaitCheck"]
    /\ UNCHANGED <<now, nTicks, collaborators, status, batch, support>>

\* lines 125-135: the loop check has returned
ArBranch ==
    /\ ar.pc = "awaitCheck"
    /\ pending = <<>>
    /\ Logged([op |-> "checkForLoop", id |-> CurrentEmail.id,
               arg |-> last.result.action, ok |-> TRUE])
    /\ ar' = IF AfterCheck(last.result.action) = "continue" THEN NextEmail(ar)
             ELSE [ar EXCEPT !.pc = AfterCheck(last.result.action),
                             !.loopCheck = last.result]
    /\ UNCHANGED <<engineVars, callVars, now, nTicks, status, batch, support>>

\* a block branch that forgets its `continue`
ArLabelBlockedFallsThrough ==
    /\ ar.pc = "labelBlocked"
    /\ \E ok \in BOOLEAN :
          /\ Logged([op |-> "addLabel", id |-> CurrentEmail.id, arg |-> "loop-blocked",
                     ok |-> ok])
          /\ ar' = IF ok THEN [ar EXCEPT !.pc = "analyze"] ELSE Catch(ar)
    /\ UNCHANGED <<engineVars, callVars, now, nTicks, status, batch, support>>

\* lines 125-129: the blocked message is labelled, then `continue`
ArLabelBlocked ==
    /\ ar.pc = "labelBlocked"
    /\ \E ok \in BOOLEAN :
          /\ Logged([op |-> "addLabel", id |-> CurrentEmail.id, arg |-> "loop-blocked",
                     ok |-> ok])
          /\ ar' = IF ok THEN NextEmail(ar) ELSE Catch(ar)
    /\ UNCHANGED <<engineVars, callVars, now, nTicks, status, batch, support>>

\* lines 137-142: the analysis fails, or says whether and what to reply
ArAnalyze ==
    /\ ar.pc = "analyze"
    /\ \/ /\ Logged([op |-> "analyzeEmail", id |-> CurrentEmail.id, arg |-> "", ok |-> FALSE])
          /\ ar' = Catch(ar)
       \/ \E analysis \in Analyses :
             /\ Logged([op |-> "analyzeEmail", id |-> CurrentEmail.id, arg |-> "",
                        ok |-> TRUE, analysis |-> analysis])
             /\ ar' = IF ~shouldAutoRespond(analysis) THEN NextEmail(ar)
                      ELSE IF ar.template # "" \/ analysis.suggestedReply # ""
                      THEN [ar EXCEPT !.pc = "reply"]
                      ELSE [ar EXCEPT !.pc = "generate"]
    /\ UNCHANGED <<engineVars, callVars, now, nTicks, status, batch, support>>

\* line 142: aiService.generateReply
ArGenerate ==
    /\ ar.pc = "generate"
    /\ \E ok \in BOOLEAN :
          /\ Logged([op |-> "generateReply", id |-> CurrentEmail.id, arg |-> "", ok |-> ok])
          /\ ar' = IF ok THEN [ar EXCEPT !.pc = "reply"] ELSE Catch(ar)
    /\ UNCHANGED <<engineVars, callVars, now, nTicks, status, batch, support>>

\* lines 144-148: gmailService.replyToEmail
ArReply ==
    /\ ar.pc = "reply"
    /\ \E ok \in BOOLEAN :
          /\ Logged([op |-> "replyToEmail", id |-> CurrentEmail.id,
                     arg |-> CurrentEmail.threadId, ok |-> ok])
          /\ ar' = IF ok THEN [ar EXCEPT !.pc = "label"] ELSE Catch(ar)
    /\ UNCHANGED <<engineVars, callVars, now, nTicks, status, batch, support>>

\* lines 151-152: the answered message is labelled and counted
ArLabel ==
    /\ ar.pc = "label"
    /\ \E ok \in BOOLEAN :
          /\ Logged([op |-> "addLabel", id |-> CurrentEmail.id, arg |-> "auto-responded",
                     ok |-> ok])
          /\ ar' = IF ok THEN [NextEmail(ar) EXCEPT !.responded = @ + 1] ELSE Catch(ar)
    /\ UNCHANGED <<engineVars, callVars, now, nTicks, status, batch, support>>

\* line 159
ArReturn ==
    /\ ar.pc = "loop"
    /\ ar.i > Len(ar.emails)
    /\ ar' = [Idle EXCEPT !.responded = ar.responded, !.runs = ar.runs]
    /\ UNCHANGED <<engineVars, callVars, now, nTicks, collaborators, status, batch, support>>

NextAuto ==
    \/ \E emails \in Batches, template \in {"", "We will get back to you"} :
          AutoRespond(emails, template)
    \/ ArCheck
    \/ Resume
    \/ ArBranch
    \/ ArLabelBlocked
    \/ ArAnalyze
    \/ ArGenerate
    \/ ArReply
    \/ ArLabel
    \/ ArReturn

SpecAuto == Init /\ [][NextAuto]_vars

-----------------------------------------------------------------------------
(* EmailProcessor.processBatch.  The listed emails are handed to processEmail
   one after the other; each call runs up to its first await, and from then
   on the calls go on in any order, each when the collaborator it waits for
   settles.  getEmail(id) answers with the email of that id. *)

ListedIds == {"email1", "email2", "email3"}

MaxListed == 2
MaxBatchRuns == 2

\* the lists gmailService.listEmails may answer: distinct emails
Listings ==
    UNION { {l \in [1..n -> ListedIds] : \A i, j \in 1..n : i # j => l[i] # l[j]} :
            n \in 0..MaxListed }

\* ProcessingOptions; an absent analyzeContent counts as true (line 39)
ProcessingOptions == [analyzeContent : BOOLEAN, addLabels : BOOLEAN]

\* lines 49-54 and 56-61, without processingTime
ProcessingResult(success, emailId, analysis) ==
    [success |-> success, emailId |-> emailId, analysis |-> analysis]

\* line 36: processEmail up to its first await; `threw` names the collaborator
\* that failed this call, if any
processEmail(emailId) ==
    [pc |-> "getEmail", emailId |-> emailId, status |-> "pending",
     value |-> ProcessingResult(FALSE, "", "undefined"), threw |-> "none"]

\* lines 49-54: the promise of processEmail fulfils with the success result
Succeeded(task, analysis) ==
    [task EXCEPT !.pc = "done", !.status = "fulfilled",
                 !.value = ProcessingResult(TRUE, task.emailId, analysis)]

\* a processEmail without its try/catch: the promise rejects
Uncaught(task) ==
    [task EXCEPT !.pc = "done", !.status = "rejected", !.threw = task.pc]

\* lines 55-62: the catch block: the promise fulfils with the failure result
Caught(task) ==
    [task EXCEPT !.pc = "done", !.status = "fulfilled", !.threw = task.pc,
                 !.value = ProcessingResult(FALSE, task.emailId, "undefined")]

\* lines 80-86: the result made of a settled promise
Settled(task) ==
    IF task.status = "fulfilled" THEN task.value
    ELSE ProcessingResult(FALSE, "", "undefined")

\* lines 73-78: the call; the list is answered and processEmail is called on
\* each entry
ProcessBatch(emails, options) ==
    /\ batch.pc # "running"
    /\ batch.runs < MaxBatchRuns
    /\ batch' = [pc |-> "running", ids |-> emails, options |-> options,
                 tasks |-> [i \in 1..Len(emails) |-> processEmail(emails[i])],
                 results |-> <<>>, runs |-> batch.runs + 1]
    /\ UNCHANGED <<engineVars, callVars, now, nTicks, arVars, support, status>>

\* line 73: listEmails throws, and processBatch rejects
ProcessBatchRejects ==
    /\ batch.pc # "running"
    /\ batch.runs < MaxBatchRuns
    /\ batch' = [NoBatch EXCEPT !.pc = "rejected", !.runs = batch.runs + 1]
    /\ UNCHANGED <<engineVars, callVars, now, nTicks, arVars, support, status>>

\* line 36, 39: getEmail settles for the i-th call
GetEmailSettles(i) ==
    /\ batch.pc = "running"
    /\ batch.tasks[i].pc = "getEmail"
    /\ \E ok \in BOOLEAN :
          batch' = [batch EXCEPT !.tasks[i] =
                       IF ~ok THEN Caught(@)
                       ELSE IF batch.options.analyzeContent
                       THEN [@ EXCEPT !.pc = "analyzeEmail"]
                       ELSE Succeeded(@, "undefined")]
    /\ UNCHANGED <<engineVars, callVars, now, nTicks, arVars, support, status>>

\* lines 42-45: analyzeEmail settles for the i-th call
AnalyzeEmailSettles(i) ==
    /\ batch.pc = "running"
    /\ batch.tasks[i].pc = "analyzeEmail"
    /\ \E ok \in BOOLEAN :
          batch' = [batch EXCEPT !.tasks[i] =
                       IF ~ok THEN Caught(@)
                       ELSE IF batch.options.addLabels
                       THEN [@ EXCEPT !.pc = "addAnalysisLabels"]
                       ELSE Succeeded(@, "analysis")]
    /\ UNCHANGED <<engineVars, callVars, now, nTicks, arVars, support, status>>

\* lines 46, 202-204: the addLabel calls of addAnalysisLabels settle for the
\* i-th call
AddAnalysisLabelsSettles(i) ==
    /\ batch.pc = "running"
    /\ batch.tasks[i].pc = "addAnalysisLabels"
    /\ \E ok \in BOOLEAN :
          batch' = [batch EXCEPT !.tasks[i] =
                       IF ok THEN Succeeded(@, "analysis") ELSE Caught(@)]
    /\ UNCHANGED <<engineVars, callVars, now, nTicks, arVars, support, status>>

\* lines 75-86: every promise has settled, and the results are returned
ProcessBatchReturns ==
    /\ batch.pc = "running"
    /\ \A i \in 1..Len(batch.tasks) : batch.tasks[i].pc = "done"
    /\ batch' = [batch EXCEPT !.pc = "returned",
                              !.results = [i \in 1..Len(batch.tasks) |-> Settled(batch.tasks[i])]]
    /\ UNCHANGED <<engineVars, callVars, now, nTicks, arVars, support, status>>

NextBatch ==
    \/ \E emails \in Listings, options \in ProcessingOptions : ProcessBatch(emails, options)
    \/ ProcessBatchRejects
    \/ \E i \in 1..Len(batch.tasks) : GetEmailSettles(i)
    \/ \E i \in 1..Len(batch.tasks) : AnalyzeEmailSettles(i)
    \/ \E i \in 1..Len(batch.tasks) : AddAnalysisLabelsSettles(i)
    \/ ProcessBatchReturns

SpecBatch == Init /\ [][NextBatch]_vars

-----------------------------------------------------------------------------
(* FirstLevelSupportAgent.processBatch (modules/support/ticket.service.ts).
   The agent owns a LoopPreventionService and works through the listed emails
   one after the other.  What processEmail does after the loop check - the
   analysis, the ticket and the knowledge base - is one step with any of its
   outcomes. *)

MaxSupportRuns == 2

\* ticket.service.ts 477-482: what the agent hands to checkForLoop
SupportInput(email) ==
    [from |-> email.from, subject |-> email.subject, body |-> email.body,
     threadId |-> email.threadId, headers |-> NoHeaders]

\* the email the agent is working on
SupportEmail == support.emails[support.i]

\* the agent calls a collaborator; `ok` is FALSE when the call threw
SupportCalls(call) == [support EXCEPT !.calls = Append(@, call)]

\* 581, 590-592: the next email of the for loop, also after the catch
SupportNext(a) == [a EXCEPT !.pc = "loop", !.i = @ + 1]

\* 577-579: the call, with the list listEmails answered
SupportBatch(emails) ==
    /\ support.pc = "idle"
    /\ support.runs < MaxSupportRuns
    /\ support' = [pc |-> "loop", emails |-> emails, i |-> 1, responses |-> <<>>,
                   calls |-> <<>>, runs |-> support.runs + 1]
    /\ UNCHANGED <<engineVars, callVars, now, nTicks, arVars, status, batch>>

\* 581-583, 475-482: processEmail is called and calls the loop check
SupportCheck ==
    /\ support.pc = "loop"
    /\ support.i <= Len(support.emails)
    /\ CheckForLoop(SupportInput(SupportEmail))
    /\ support' = [support EXCEPT !.pc = "awaitCheck"]
    /\ UNCHANGED <<now, nTicks, arVars, status, batch>>

\* 484-490: the loop check has returned; a loop closes the email
SupportBranch ==
    /\ support.pc = "awaitCheck"
    /\ pending = <<>>
    /\ LET checked == SupportCalls([op |-> "checkForLoop", id |-> SupportEmail.id,
                                    arg |-> last.result.action, ok |-> TRUE])
       IN  support' = IF last.result.isLoop
                      THEN [SupportNext(checked) EXCEPT !.responses = Append(@, "close")]
                      ELSE [checked EXCEPT !.pc = "process"]
    /\ UNCHANGED <<engineVars, callVars, now, nTicks, arVars, status, batch>>

\* 492-573: the rest of processEmail throws, or returns its response; a
\* 'reply' response carries a reply text, which may be empty (584-588)
SupportProcess ==
    /\ support.pc = "process"
    /\ \/ support' = SupportNext(support)
       \/ \E action \in {"escalate", "wait", "reply"} :
             support' = [SupportNext(support) EXCEPT !.responses = Append(@, action)]
       \/ support' = [support EXCEPT !.pc = "sendReply", !.responses = Append(@, "reply")]
    /\ UNCHANGED <<engineVars, callVars, now, nTicks, arVars, status, batch>>

\* 663-667: sendReply calls gmailService.replyToEmail
SupportReply ==
    /\ support.pc = "sendReply"
    /\ \E ok \in BOOLEAN :
          LET called == SupportCalls([op |-> "replyToEmail", id |-> SupportEmail.id,
                                      arg |-> SupportEmail.threadId, ok |-> ok])
          IN  support' = IF ok THEN [called EXCEPT !.pc = "updateTicket"]
                         ELSE SupportNext(called)
    /\ UNCHANGED <<engineVars, callVars, now, nTicks, arVars, status, batch>>

\* 670-673: sendReply updates the ticket
SupportUpdate ==
    /\ support.pc = "updateTicket"
    /\ \E ok \in BOOLEAN :
          LET called == SupportCalls([op |-> "updateTicket", id |-> SupportEmail.id,
                                      arg |-> "waiting-customer", ok |-> ok])
          IN  support' = IF ok THEN [called EXCEPT !.pc = "addLabel"]
                         ELSE SupportNext(called)
    /\ UNCHANGED <<engineVars, callVars, now, nTicks, arVars, status, batch>>

\* 676: sendReply labels the email
SupportLabel ==
    /\ support.pc = "addLabel"
    /\ \E ok \in BOOLEAN :
          support' = SupportNext(SupportCalls([op |-> "addLabel", id |-> SupportEmail.id,
                                               arg |-> "support/auto-replied", ok |-> ok]))
    /\ UNCHANGED <<engineVars, callVars, now, nTicks, arVars, status, batch>>

\* 595: the responses are returned
SupportReturn ==
    /\ support.pc = "loop"
    /\ support.i > Len(support.emails)
    /\ support' = [support EXCEPT !.pc = "idle"]
    /\ UNCHANGED <<engineVars, callVars, now, nTicks, arVars, status, batch>>

NextSupport ==
    \/ \E emails \in Batches : SupportBatch(emails)
    \/ SupportCheck
    \/ Resume
    \/ SupportBranch
    \/ SupportProcess
    \/ SupportReply
    \/ SupportUpdate
    \/ SupportLabel
    \/ SupportReturn

SpecSupport == Init /\ [][NextSupport]_vars

-----------------------------------------------------------------------------
(* Claims *)

\* a step in which a checkForLoop call returns
Returns == last'.n # last.n

\* a step in which `sender` calls checkForLoop
Calls(sender) ==
    /\ nCalls' = nCalls + 1
    /\ GetOr(track', sender, NoTrack).ever = TrackOf(sender).ever + 1

\* C1: whatever the state of the service and whatever the message carries, a
\* call of a whitelisted sender returns action 'proceed', confidence 0 and
\* isLoop false.
C1_WhitelistedProceeds ==
    (last.n > 0 /\ isWhitelisted(last.from)) =>
        /\ last.result.action = "proceed"
        /\ last.result.confidence = 0
        /\ last.result.isLoop = FALSE

\* a whitelisted sender's autoresponder message in a counted thread has
\* returned while another sender is blacklisted
C1_Witness ==
    /\ last.n > 0
    /\ last.from = ceo
    /\ blockedSenders # {}
    /\ Has(threadReplies, "t1")

\* C2: a call made by a sender that is in the blacklist returns 'block' with
\* confidence 1.0 and the 'previously blocked' reason and changes no history,
\* attempt count or thread counter; and only clearSenderHistory takes a sender
\* out of the blacklist.
C2_BlacklistShortCircuit ==
    [][\A sender \in Senders :
         /\ (sender \in blockedSenders /\ Calls(sender)) =>
               /\ Returns
               /\ last'.from = sender
               /\ last'.result.action = "block"
               /\ last'.result.confidence = Conf(1, 1)
               /\ last'.result.reason = "Sender previously blocked for email loops"
               /\ UNCHANGED <<emailHistory, contentHashes, attemptCounts, threadReplies,
                              blockedSenders>>
         /\ (sender \in blockedSenders /\ sender \notin blockedSenders') =>
               /\ ~Has(emailHistory', sender)
               /\ ~Has(contentHashes', sender)
               /\ UNCHANGED <<nCalls, pending, last>>]_vars

\* a blacklisted sender with a history on file has called again and was
\* answered from the blacklist
C2_Witness ==
    /\ last.path = "blacklist"
    /\ last.ever >= 2
    /\ last.from \in blockedSenders
    /\ Has(emailHistory, last.from)

\* C5: no call returns 'proceed' or 'delay' for a sender that another call
\* has already put in the blacklist.
C5_NoPassAfterBlacklisting ==
    [][(Returns /\ last'.result.action \in {"proceed", "delay"})
          => last'.from \notin blockedSenders]_vars

\* C6: every returned result has isLoop true exactly when its action is
\* 'block', on the whitelist and blacklist returns as well.
C6_IsLoopIffBlock ==
    last.n > 0 =>
        /\ last.result.action \in {"block", "delay", "proceed"}
        /\ last.result.isLoop = (last.result.action = "block")

\* the decision engine has returned a delay, which is no loop
C6_Witness ==
    /\ last.path = "engine"
    /\ last.result.action = "delay"
    /\ last.result.isLoop = FALSE
    /\ last.result.confidence > Conf(7, 10)

\* C7: of a result computed by the decision engine: confidence above 0.8 means
\* 'block' with the sender in the blacklist as the call returns; 'delay' means
\* a confidence in (0.5, 0.8] and delayMinutes defined; 'proceed' means a
\* confidence of at most 0.5.
C7_ActionMatchesConfidence ==
    [][(Returns /\ last'.path = "engine") =>
          LET r == last'.result IN
          /\ r.confidence > Conf(8, 10) =>
                (r.action = "block" /\ last'.from \in blockedSenders')
          /\ r.action = "delay" =>
                /\ r.confidence > Conf(5, 10)
                /\ r.confidence <= Conf(8, 10)
                /\ "delayMinutes" \in DOMAIN r
                /\ r.delayMinutes \in {0, 5, 60}
          /\ r.action = "proceed" => r.confidence <= Conf(5, 10)]_vars

\* the engine has blocked a message above 0.8 and its sender, so far not
\* blacklisted and without any high-score attempt on file, is in the blacklist
C7_Witness ==
    /\ last.path = "engine"
    /\ last.result.confidence > Conf(8, 10)
    /\ last.result.action = "block"
    /\ last.from \in blockedSenders
    /\ attemptCounts[last.from] = 1

\* a step in which autoRespond calls replyToEmail
Replies ==
    /\ collaborators' # collaborators
    /\ collaborators' # <<>>
    /\ collaborators'[Len(collaborators')].op = "replyToEmail"

\* C3: autoRespond calls replyToEmail for a message only when the loop check
\* of that same message has returned, and has returned 'proceed'.
C3_ReplyOnlyAfterProceed ==
    [][Replies =>
          /\ pending = <<>>
          /\ last.n > 0
          /\ last.from = CurrentEmail.from
          /\ last.result.action = "proceed"
          /\ ar.loopCheck = last.result
          /\ collaborators'[Len(collaborators')].id = CurrentEmail.id]_vars

\* one message of the batch was blocked and labelled, a later one was replied to
C3_Witness ==
    \E i, j \in 1..Len(collaborators) :
        /\ i < j
        /\ collaborators[i].op = "addLabel"
        /\ collaborators[i].arg = "loop-blocked"
        /\ collaborators[j].op = "replyToEmail"
        /\ collaborators[j].id # collaborators[i].id

\* C4: the prune-append-count of the frequency detector is atomic.  Every
\* suspended call counted exactly the sender's calls of the last hour up to
\* and including itself, so two suspended calls of one sender never counted
\* the same number, and a call whose count passes the hourly limit or the
\* burst threshold is scored so and does not return 'proceed'.
C4_AtomicCount ==
    /\ \A i \in 1..Len(pending) :
          /\ pending[i].count = pending[i].call.nth
          /\ pending[i].call.nth > maxEmailsPerHour =>
                pending[i].scores[2] = Score(95, 100)
          /\ pending[i].call.burst >= burstThreshold =>
                pending[i].scores[2] >= Score(85, 100)
    /\ \A i, j \in 1..Len(pending) :
          (i < j /\ pending[i].call.from = pending[j].call.from) =>
              pending[i].count < pending[j].count
    /\ (last.path = "engine"
          /\ (last.nth > maxEmailsPerHour \/ last.burst >= burstThreshold)) =>
              last.result.action # "proceed"

\* two calls of one sender are suspended at once: the fourth of the minute,
\* scored below the burst threshold, and the fifth, scored at it
C4_Witness ==
    /\ Len(pending) = 2
    /\ pending[1].call.from = pending[2].call.from
    /\ pending[1].call.burst = 4
    /\ pending[1].scores[2] < Score(85, 100)
    /\ pending[2].call.burst = 5
    /\ pending[2].scores[2] = Score(85, 100)

\* C8 as stated: once a sender has sent 15 consecutive autoresponder-pattern
\* messages, none scoring above 0.8, it is blacklisted.
C8_FifteenNoticesBlacklist ==
    (pending = <<>> /\ TrackOf(RunSender).streak >= 15) => RunSender \in blockedSenders

\* C8 as amended: once a sender has sent 10 consecutive autoresponder-pattern
\* messages that each scored in (0.7, 0.8], it is blacklisted, and every
\* further one is answered 'block' with the 'previously blocked' reason.
C8_TenHotNoticesBlacklist ==
    pending = <<>> =>
        /\ TrackOf(RunSender).hot >= 10 => RunSender \in blockedSenders
        /\ TrackOf(RunSender).hot >= 11 => last.result = BlockedResult

\* the tenth such message was answered 'delay' and blacklisted its sender
\* through highScoreAttempts
C8_Witness ==
    /\ pending = <<>>
    /\ TrackOf(RunSender).hot = 10
    /\ last.path = "engine"
    /\ last.result.action = "delay"
    /\ attemptCounts[RunSender] = 10
    /\ RunSender \in blockedSenders

\* C9 as stated: the 11th call of a non-whitelisted sender within an hour, and
\* every later one, has a frequency signal of at least 0.95.
C9_EleventhScoresFrequency ==
    (last.n > 0 /\ ~isWhitelisted(last.from) /\ last.nth >= 11) =>
        /\ last.scores # <<>>
        /\ last.scores[2] >= Score(95, 100)

\* C9 as amended: such a call scores the frequency signal 0.95 if it reaches
\* the detector; otherwise it was answered from the blacklist, with no signal
\* computed; and once 11 calls of the hour have returned the sender is
\* blacklisted.
C9_EleventhReachingDetector ==
    /\ (last.n > 0 /\ ~isWhitelisted(last.from) /\ last.nth >= 11) =>
          \/ last.path = "engine" /\ last.scores[2] >= Score(95, 100)
          \/ last.path = "blacklist" /\ last.scores = <<>> /\ last.result = BlockedResult
    /\ (pending = <<>> /\ Len(TrackOf(RunSender).times) >= 11) =>
          RunSender \in blockedSenders

\* the 11th call of the hour reached the detector and scored 0.95
C9_Witness ==
    /\ last.path = "engine"
    /\ last.nth = 11
    /\ last.scores[2] = Score(95, 100)
    /\ last.result.action = "block"

\* C10 as stated: the 5th call of a fresh sender within a minute has a
\* frequency signal of at least 0.85, a confidence above 0.5 and an action
\* other than 'proceed'.
C10_FifthInBurstScores ==
    (last.n > 0 /\ ~isWhitelisted(last.from) /\ last.ever = 5 /\ last.burst = 5) =>
        /\ last.scores # <<>>
        /\ last.scores[2] >= Score(85, 100)
        /\ last.result.confidence > Conf(5, 10)
        /\ last.result.action # "proceed"

\* C10 as amended: that call either reaches the detector and scores the
\* frequency signal at least 0.85, or is answered from the blacklist with no
\* signal computed; either way its confidence is above 0.5 and its action is
\* not 'proceed'.
C10_FifthInBurstNeverProceeds ==
    (last.n > 0 /\ ~isWhitelisted(last.from) /\ last.ever = 5 /\ last.burst = 5) =>
        /\ \/ last.path = "engine" /\ last.scores[2] >= Score(85, 100)
           \/ last.path = "blacklist" /\ last.scores = <<>>
        /\ last.result.confidence > Conf(5, 10)
        /\ last.result.action # "proceed"

\* the fifth call of a fresh sender within a minute scored the burst and was delayed
C10_Witness ==
    /\ last.path = "engine"
    /\ last.ever = 5
    /\ last.burst = 5
    /\ last.scores[2] = Score(85, 100)
    /\ last.result.action = "delay"

\* C11 as stated: when a message repeats the body of the sender's previous
\* message, which was not blocked, its check scores the similarity signal at
\* least 0.98 and returns a confidence above 0.8.
C11_RepeatScoresSimilarity ==
    (last.n > 0 /\ last.dup) =>
        /\ last.scores # <<>>
        /\ last.scores[4] >= Score(98, 100)
        /\ last.result.confidence > Conf(8, 10)

\* C11 as amended: for a sender that is not whitelisted and whose history was
\* not cleared in between, such a check either scores the similarity signal
\* at least 0.98 in the engine or is answered from the blacklist; either way
\* its confidence is above 0.8.
C11_RepeatIsCaught ==
    (last.n > 0 /\ last.dup /\ ~isWhitelisted(last.from)) =>
        /\ \/ last.path = "engine" /\ last.scores[4] >= Score(98, 100)
           \/ last.path = "blacklist" /\ last.scores = <<>>
        /\ last.result.confidence > Conf(8, 10)

\* an ordinary message was let through, was sent again and was then blocked
\* on the similarity signal alone
C11_Witness ==
    /\ last.dup
    /\ last.path = "engine"
    /\ last.scores[1] = 0
    /\ last.scores[4] = Score(98, 100)
    /\ last.result.action = "block"

\* a step in which getStatus is called
Snapshots == status'.n # status.n

\* a step in which `name` is called for `sender`
Does(name, sender) ==
    /\ status'.k # status.k
    /\ status'.op = [name |-> name, sender |-> sender]

\* the members of an array
Members(array) == {array[i] : i \in 1..Len(array)}

\* C12: getStatus changes no state of the engine, and a getStatus call that
\* directly follows another returns the same snapshot.
C12_StatusIsPure ==
    [][Snapshots =>
          /\ UNCHANGED <<emailHistory, threadReplies, contentHashes, blockedSenders,
                         attemptCounts>>
          /\ status.op.name = "getStatus" => status'.snapshot = status.snapshot]_vars

\* two snapshots in a row, taken with a sender blacklisted, a thread counted
\* and a check still suspended
C12_Witness ==
    /\ status.op.name = "getStatus"
    /\ status.before.name = "getStatus"
    /\ status.snapshot.blockedList # <<>>
    /\ status.snapshot.activeThreads > 0
    /\ pending # <<>>

\* C13: clearSenderHistory(s) removes s's timestamp history, content-hash
\* history and blacklist flag and changes no thread counter and no record of
\* another sender; a getStatus that directly follows it shows s absent from
\* blockedList and not counted in totalSenders, with activeThreads as before.
C13_ClearRemovesSender ==
    [][\A s \in GateSenders :
         /\ Does("clearSenderHistory", s) =>
               /\ ~Has(emailHistory', s)
               /\ ~Has(contentHashes', s)
               /\ blockedSenders' = blockedSenders \ {s}
               /\ threadReplies' = threadReplies
               /\ \A o \in GateSenders \ {s} :
                     /\ Has(emailHistory', o) = Has(emailHistory, o)
                     /\ GetOr(emailHistory', o, <<>>) = GetOr(emailHistory, o, <<>>)
                     /\ Has(contentHashes', o) = Has(contentHashes, o)
                     /\ GetOr(contentHashes', o, <<>>) = GetOr(contentHashes, o, <<>>)
                     /\ GetOr(attemptCounts', o, 0) = GetOr(attemptCounts, o, 0)
         /\ (Snapshots /\ status.op = [name |-> "clearSenderHistory", sender |-> s]) =>
               /\ s \notin Members(status'.snapshot.blockedList)
               /\ status'.snapshot.totalSenders = Cardinality(DOMAIN emailHistory \ {s})
               /\ status'.snapshot.activeThreads = Cardinality(DOMAIN threadReplies)]_vars

\* a blacklisted sender was cleared and the snapshot taken right afterwards
\* counts the other sender and the thread only
C13_Witness ==
    /\ status.op.name = "getStatus"
    /\ status.before = [name |-> "clearSenderHistory", sender |-> customer]
    /\ Has(attemptCounts, customer)
    /\ status.snapshot.totalSenders = 1
    /\ status.snapshot.activeThreads = 1
    /\ status.snapshot.blockedList = <<>>

\* C18: a checkForLoop call of a sender of a trusted domain changes no state
\* of the engine; such a sender never has a timestamp history, content-hash
\* history, attempt count or blacklist entry, and is never counted in
\* getStatus().totalSenders.
C18_WhitelistedLeavesNoTrace ==
    [][\A s \in Trusted :
         /\ Does("checkForLoop", s) =>
               UNCHANGED <<emailHistory, threadReplies, contentHashes, blockedSenders,
                           attemptCounts, pending>>
         /\ ~Has(emailHistory', s)
         /\ ~Has(contentHashes', s)
         /\ ~Has(attemptCounts', s)
         /\ s \notin blockedSenders'
         /\ Snapshots =>
               status'.snapshot.totalSenders = Cardinality(DOMAIN emailHistory \ Trusted)]_vars

\* after checks of a customer, in a thread, and of the trusted sender, in the
\* same thread, the snapshot counts one sender and one thread
C18_Witness ==
    /\ status.op.name = "getStatus"
    /\ status.before = [name |-> "checkForLoop", sender |-> ceo]
    /\ last.from = ceo
    /\ status.snapshot.totalSenders = 1
    /\ status.snapshot.activeThreads = 1
    /\ GetOr(threadReplies, "t1", 0) = 1

\* C19: only a sender whose domain is a trusted domain bypasses the engine;
\* every other sender's call is not answered by the whitelist.
C19_OnlyTrustedDomainBypasses ==
    (last.n > 0 /\ last.from \notin Trusted) => last.path # "whitelist"

\* the timestamps on file for `sender` in the next state are all at most one
\* hour old
Recent(sender) ==
    \A i \in 1..Len(GetOr(emailHistory', sender, <<>>)) :
        now' - emailHistory'[sender][i] <= OneHourMs

\* C20 as stated: when a checkForLoop call returns, its sender's timestamp
\* list holds no entry older than one hour.
C20_NoStaleTimestamps ==
    [][Returns => Recent(last'.from)]_vars

\* C20 as amended: that holds when the call ran the frequency detector; a
\* call answered from the blacklist leaves the list as it was.
C20_NoStaleTimestampsAfterDetector ==
    [][Returns =>
          /\ last'.path = "engine" => Recent(last'.from)
          /\ last'.path = "blacklist" => emailHistory' = emailHistory]_vars

\* the sender's second call, more than an hour after its first, has returned
\* from the engine and only its own timestamp is on file
C20_Witness ==
    /\ last.path = "engine"
    /\ last.ever = 2
    /\ last.nth = 1
    /\ now > OneHourMs
    /\ emailHistory[last.from] = <<now>>

\* the positions in the log of the loop checks that returned `action`
ChecksOf(action) ==
    {i \in 1..Len(collaborators) :
        collaborators[i].op = "checkForLoop" /\ collaborators[i].arg = action}

\* the positions in the log of the calls to `op` about message `id`
EntryOf(id, op) ==
    {j \in 1..Len(collaborators) : collaborators[j].id = id /\ collaborators[j].op = op}

\* the positions in the log of the calls to the mail and AI services about
\* message `id`
CallsFor(id) ==
    {j \in 1..Len(collaborators) :
        collaborators[j].id = id /\ collaborators[j].op # "checkForLoop"}

\* entry j of the log labels message `id` with `label`
Labels(j, id, label) ==
    /\ collaborators[j].op = "addLabel"
    /\ collaborators[j].id = id
    /\ collaborators[j].arg = label

\* C14: in autoRespond a message whose check returns 'block' gets one
\* collaborator call, addLabel 'loop-blocked', and a message whose check
\* returns 'delay' gets none; neither is counted as responded.
C14_BlockedAndDelayedAreLeftAlone ==
    /\ \A i \in ChecksOf("block") :
          /\ CallsFor(collaborators[i].id) \subseteq {i + 1}
          /\ i < Len(collaborators) => Labels(i + 1, collaborators[i].id, "loop-blocked")
    /\ \A i \in ChecksOf("delay") : CallsFor(collaborators[i].id) = {}
    /\ ar.responded <= Cardinality(ChecksOf("proceed"))

\* a finished run of two messages: the first was delayed and left alone, the
\* second was blocked and labelled, and neither was counted
C14_Witness ==
    /\ ar.pc = "idle"
    /\ ar.responded = 0
    /\ Len(collaborators) = 3
    /\ 1 \in ChecksOf("delay")
    /\ 2 \in ChecksOf("block")
    /\ Labels(3, collaborators[2].id, "loop-blocked")
    /\ collaborators[3].ok

\* autoRespond is done with message `id`
Finished(id) == ar.pc \in {"idle", "loop"} \/ CurrentEmail.id # id

\* lines 209-227: the analyses autoRespond answers
Accepted(analysis) ==
    \/ analysis.category = "customer-support" /\ analysis.urgency = "high"
    \/ analysis.category = "sales-inquiry" /\ analysis.intent = "information-request"

\* lines 137-142: the analysis of message `id` succeeded and was accepted, and
\* no generation of a reply text failed
Prepared(id) ==
    /\ \E j \in EntryOf(id, "analyzeEmail") :
          collaborators[j].ok /\ Accepted(collaborators[j].analysis)
    /\ \A j \in EntryOf(id, "generateReply") : collaborators[j].ok

\* every successful reply in the log is followed at once by the label
\* 'auto-responded' on the same message
RepliesAreLabelled ==
    \A j \in 1..Len(collaborators) :
        (collaborators[j].op = "replyToEmail" /\ collaborators[j].ok /\ j < Len(collaborators))
            => Labels(j + 1, collaborators[j].id, "auto-responded")

\* C15 as stated: every message whose check returns 'proceed' is replied to
\* and, once the reply has succeeded, labelled 'auto-responded'.
C15_ProceedIsAnswered ==
    /\ \A i \in ChecksOf("proceed") :
          Finished(collaborators[i].id) => EntryOf(collaborators[i].id, "replyToEmail") # {}
    /\ RepliesAreLabelled

\* C15 as amended: a message whose check returns 'proceed' is replied to
\* exactly when its analysis succeeded, shouldAutoRespond accepted it and a
\* reply text was at hand; a successful reply is then labelled
\* 'auto-responded', and nothing else is.
C15_AcceptedProceedIsAnswered ==
    /\ \A i \in ChecksOf("proceed") :
          LET id == collaborators[i].id IN
          /\ EntryOf(id, "replyToEmail") # {} => Prepared(id)
          /\ (Finished(id) /\ Prepared(id)) => EntryOf(id, "replyToEmail") # {}
    /\ RepliesAreLabelled
    /\ \A j \in 1..Len(collaborators) :
          (collaborators[j].op = "addLabel" /\ collaborators[j].arg = "auto-responded")
              => /\ j > 1
                 /\ collaborators[j - 1].op = "replyToEmail"
                 /\ collaborators[j - 1].id = collaborators[j].id
                 /\ collaborators[j - 1].ok

\* a finished run of two messages that both passed the check: the analysis of
\* one was not accepted and it got no reply, the other was replied to and
\* labelled
C15_Witness ==
    /\ ar.pc = "idle"
    /\ ar.responded = 1
    /\ \E i, k \in ChecksOf("proceed") :
          /\ i # k
          /\ \E j \in EntryOf(collaborators[i].id, "analyzeEmail") :
                collaborators[j].ok /\ ~Accepted(collaborators[j].analysis)
          /\ EntryOf(collaborators[i].id, "replyToEmail") = {}
          /\ \E j \in EntryOf(collaborators[k].id, "replyToEmail") :
                /\ collaborators[j].ok
                /\ j < Len(collaborators)
                /\ Labels(j + 1, collaborators[k].id, "auto-responded")
                /\ collaborators[j + 1].ok

\* this step logs a call to the mail or AI service that threw, on a message
\* that had passed the check
FailsAfterProceed ==
    /\ Len(collaborators') = Len(collaborators) + 1
    /\ ~collaborators'[Len(collaborators')].ok
    /\ ar.pc \in {"analyze", "generate", "reply", "label"}

\* the successful 'auto-responded' labels in the log of the next state
Answered ==
    {j \in 1..Len(collaborators') :
        /\ collaborators'[j].op = "addLabel"
        /\ collaborators'[j].arg = "auto-responded"
        /\ collaborators'[j].ok}

\* C17: a collaborator failure on a message after 'proceed' fails that
\* message only: it is not counted as responded, it gets no 'loop-blocked'
\* label, and the run goes on to the remaining messages and returns only
\* when every message has been checked.
C17_FailureIsLocal ==
    [][/\ FailsAfterProceed =>
             /\ ar'.pc = "loop"
             /\ ar'.i = ar.i + 1
             /\ ar'.emails = ar.emails
             /\ ar'.responded = ar.responded
       /\ ar'.responded = Cardinality(Answered)
       /\ \A j \in 1..Len(collaborators') :
             (collaborators'[j].op = "addLabel" /\ collaborators'[j].arg = "loop-blocked")
                 => /\ j > 1
                    /\ collaborators'[j - 1].op = "checkForLoop"
                    /\ collaborators'[j - 1].arg = "block"
                    /\ collaborators'[j - 1].id = collaborators'[j].id
       /\ (ar.pc = "loop" /\ ar'.pc = "idle") =>
             \A k \in 1..Len(ar.emails) :
                 EntryOf(ar.emails[k].id, "checkForLoop") # {}]_vars

\* a finished run of two messages: the reply to the first threw, the second
\* was checked after it, answered and counted
C17_Witness ==
    /\ ar.pc = "idle"
    /\ ar.responded = 1
    /\ \E j \in 1..Len(collaborators) :
          /\ collaborators[j].op = "replyToEmail"
          /\ ~collaborators[j].ok
          /\ j < Len(collaborators)
          /\ collaborators[j + 1].op = "checkForLoop"
          /\ collaborators[j + 1].id # collaborators[j].id
          /\ CallsFor(collaborators[j].id) \subseteq 1..j

\* the calls of processEmail that this step moves on
Moved == {i \in 1..Len(batch.tasks) : batch'.tasks[i] # batch.tasks[i]}

\* C16: processBatch returns one result per listed email, in list order; the
\* result of an email is a failure exactly when a collaborator failed on that
\* email, whatever happened to the others, and while the batch runs a step of
\* one email leaves the others as they were.
C16_OneResultPerEmail ==
    [][/\ batch'.pc = "returned" =>
             /\ Len(batch'.results) = Len(batch'.ids)
             /\ \A i \in 1..Len(batch'.ids) :
                   /\ batch'.results[i].emailId = batch'.ids[i]
                   /\ batch'.results[i].success = (batch'.tasks[i].threw = "none")
       /\ (batch.pc = "running" /\ batch'.pc = "running") =>
             /\ Cardinality(Moved) <= 1
             /\ batch'.ids = batch.ids
             /\ Len(batch'.tasks) = Len(batch.tasks)]_vars

\* a returned batch of two emails: the first succeeded with its analysis, the
\* fetch of the second failed
C16_Witness ==
    /\ batch.pc = "returned"
    /\ Len(batch.ids) = 2
    /\ batch.results[1] = ProcessingResult(TRUE, batch.ids[1], "analysis")
    /\ batch.tasks[2].threw = "getEmail"
    /\ batch.results[2] = ProcessingResult(FALSE, batch.ids[2], "undefined")

\* a step in which a checkForLoop call runs the extractors and suspends
Suspends == Len(pending') = Len(pending) + 1

\* the sender of the call that suspends in this step, and the fingerprint of
\* its message
Suspended == pending'[Len(pending')].call.from
Fingerprint == hashContent(track'[Suspended].body)

\* the fingerprints on file for `sender`, before and after this step
HashesOf(sender) == GetOr(contentHashes, sender, <<>>)
HashesAfter(sender) == GetOr(contentHashes', sender, <<>>)

\* C21: every checkForLoop call that reaches the content-similarity detector
\* appends the fingerprint of its message to the sender's list (dropping the
\* oldest entry of a full list), also when the list already holds it.
C21_FingerprintAlwaysAppended ==
    [][Suspends =>
          HashesAfter(Suspended) =
              Append(IF Len(HashesOf(Suspended)) = 10 THEN Tail(HashesOf(Suspended))
                     ELSE HashesOf(Suspended),
                     Fingerprint)]_vars

\* C22: no sender's list of fingerprints is ever longer than 10, and a
\* fingerprint appended to a list of 10 pushes the oldest one out.
C22_AtMostTenFingerprints ==
    [][/\ \A sender \in DOMAIN contentHashes' : Len(contentHashes'[sender]) <= 10
       /\ (/\ Suspends
           /\ Len(HashesOf(Suspended)) = 10
           /\ \A i \in 1..10 : HashesOf(Suspended)[i] # Fingerprint)
             => HashesAfter(Suspended) = Append(Tail(HashesOf(Suspended)), Fingerprint)]_vars

\* the sender's 11th message has been checked: its fingerprint is the newest
\* of ten on file and that of the first message is gone
C22_Witness ==
    /\ Has(contentHashes, RunSender)
    /\ Len(contentHashes[RunSender]) = 10
    /\ contentHashes[RunSender][1] = sha256Hex16["message 2"]
    /\ contentHashes[RunSender][10] = sha256Hex16["message 11"]

\* C23: a call that runs the decision engine with confidence above 0.7 adds
\* exactly 1 to its sender's attempt counter, whatever it returns, and the
\* sender is blacklisted when the counter has then reached 10; a call with a
\* confidence of at most 0.7 leaves the counters alone.
C23_HighScoreCounted ==
    [][(Returns /\ last'.path = "engine") =>
          LET sender == last'.from
              before == GetOr(attemptCounts, sender, 0)
              after == GetOr(attemptCounts', sender, 0)
          IN  /\ last'.result.confidence > Conf(7, 10) =>
                    /\ after = before + 1
                    /\ after >= 10 => sender \in blockedSenders'
              /\ last'.result.confidence <= Conf(7, 10) => attemptCounts' = attemptCounts
              /\ \A other \in DOMAIN attemptCounts' \ {sender} :
                    /\ Has(attemptCounts, other)
                    /\ attemptCounts'[other] = attemptCounts[other]]_vars

\* a call has returned 'delay' at a confidence in (0.7, 0.8], it was its
\* sender's tenth such call, and the sender is blacklisted
C23_Witness ==
    /\ last.path = "engine"
    /\ last.result.action = "delay"
    /\ last.result.confidence > Conf(7, 10)
    /\ GetOr(attemptCounts, last.from, 0) = 10
    /\ last.from \in blockedSenders

\* C24: a sender's attempt counter never decreases, except that
\* clearSenderHistory resets it, so that the sender starts again from zero
\* towards the ten attempts of the slow-burn rule.
C24_AttemptsResetByClear ==
    [][\A sender \in GateSenders :
          IF Does("clearSenderHistory", sender)
          THEN GetOr(attemptCounts', sender, 0) = 0
          ELSE GetOr(attemptCounts', sender, 0) >= GetOr(attemptCounts, sender, 0)]_vars

\* a step in which a call returns that the decision engine scored in the
\* backoff band (0.5, 0.8]
ReturnsBackoff == Returns /\ Backoff(last'.path, last'.result)

\* C25: a call scored in (0.5, 0.8] is answered by the tier
\* min(floor(n / 3), 3) of [0 min, 5 min, 60 min, block], n being the number
\* of messages its sender has sent: 'delay' with that many minutes for the
\* tiers 0 to 2, 'block' and the blacklist for tier 3.
C25_TierBySendCount ==
    [][ReturnsBackoff =>
          LET tier == Min(TrackOf(last'.from).ever \div 3, 3) IN
          IF tier = 3
          THEN last'.result.action = "block" /\ last'.from \in blockedSenders'
          ELSE /\ last'.result.action = "delay"
               /\ last'.result.delayMinutes = <<0, 5, 60>>[tier + 1]]_vars

\* C26: the calls of one sender scored in (0.5, 0.8] never go back to a lower
\* backoff tier, however much time passes between them.
C26_TierNeverLower ==
    [][ReturnsBackoff => TierOf(last'.result) >= TrackOf(last'.from).tier]_vars

\* the thread id carried by the call that suspends in this step, "" for none
SuspendedThread == pending'[Len(pending')].call.threadId

\* C27: a thread's reply counter never decreases; it changes only by +1, in
\* a checkForLoop call that carries the thread's id and reaches the
\* extractors; a call without a thread id scores the thread signal 0 and
\* leaves the thread counters as they were.
C27_ThreadCounterOnlyCounts ==
    [][/\ \A threadId \in DOMAIN threadReplies \cup DOMAIN threadReplies' :
             LET before == GetOr(threadReplies, threadId, 0)
                 after == GetOr(threadReplies', threadId, 0)
             IN  IF Suspends /\ SuspendedThread = threadId
                 THEN after = before + 1
                 ELSE Has(threadReplies, threadId) /\ after = before
       /\ (Suspends /\ SuspendedThread = "") =>
             /\ pending'[Len(pending')].scores[6] = 0
             /\ threadReplies' = threadReplies]_vars

\* three calls have reached the extractors, two of them in thread t1 and one
\* without a thread id, and t1 is the only thread on file, counted twice
C27_Witness ==
    /\ nCalls = 3
    /\ pending = <<>>
    /\ Has(emailHistory, customer)
    /\ Len(emailHistory[customer]) = 3
    /\ DOMAIN threadReplies = {"t1"}
    /\ threadReplies["t1"] = 2

\* a step in which a returning call puts its sender into the blacklist
Blacklists ==
    /\ Returns
    /\ last'.from \notin blockedSenders
    /\ last'.from \in blockedSenders'

C30_BlockedSendersAreKnown ==
    /\ blockedSenders \subseteq DOMAIN emailHistory
    /\ getStatus.blockedSenders <= getStatus.totalSenders
    /\ getStatus.blockedSenders = Len(getStatus.blockedList)

\* C29: FirstLevelSupportAgent.processBatch sends a reply only for a message
\* whose loop check returned 'proceed', never for one whose check returned
\* 'delay' or 'block'.
C29_SupportRepliesOnlyAfterProceed ==
    \A j \in 1..Len(support.calls) :
        support.calls[j].op = "replyToEmail" =>
            \E i \in 1..(j - 1) :
                /\ support.calls[i].op = "checkForLoop"
                /\ support.calls[i].id = support.calls[j].id
                /\ support.calls[i].arg = "proceed"

====
